---- MODULE Spec2Model ----
(***************************************************************************)
(* Model of python/projection_models/gp_projection.py:                     *)
(*   GaussianProcessProjection (fit / predict), make_lag_features and      *)
(*   project_with_autoregression.                                          *)
(*                                                                         *)
(* Numbers are integers.  Two sentinels stand for the non-finite / non-    *)
(* numeric cell contents the code can meet: NaN (numpy.nan) and NonNumeric *)
(* (an object that astype(float) rejects).  The numeric libraries the code *)
(* calls (StandardScaler, GaussianProcessRegressor, pandas constructors)   *)
(* are modelled by their input validation and by integer-exact stand-ins   *)
(* for their arithmetic; the optimiser's random restarts are a choice of   *)
(* theta at fit time.                                                      *)
(***************************************************************************)
EXTENDS Integers, Sequences, FiniteSets, TLC

\* ------------------------------------------------------------------- state
\* one GaussianProcessProjection instance and the calls made on it
VARIABLES
    model,      \* the instance's fields
    calls,      \* number of fit / predict calls made so far
    lastCall,   \* the most recent call: what it was given and how it ended
    lastGood    \* the fields as the most recent successful fit left them

mvars == <<model, calls, lastCall, lastGood>>

\* one call of make_lag_features
VARIABLES
    lf_args,    \* arguments of the make_lag_features call
    lf_out      \* what the call returned or raised

lvars == <<lf_args, lf_out>>

\* one call of project_with_autoregression
VARIABLES
    pc,         \* position in the function
    args,       \* series, lags, n_steps and the normalize_y of gp_kwargs
    X_rows,     \* training feature rows collected so far
    y_rows,     \* training targets collected so far
    t,          \* index of the training loop
    train,      \* the X and y handed to fit
    pmodel,     \* the GaussianProcessProjection the call creates
    future_X,   \* the frame make_lag_features returned
    lag_window, \* the lag window of the rollout, newest last
    preds,      \* forecasts made so far
    fed,        \* the feature rows passed to predict, in call order
    counts,     \* regressors constructed, fit calls, predict calls
    outcome     \* the error raised or the series returned

pvars == <<pc, args, X_rows, y_rows, t, train, pmodel, future_X, lag_window,
           preds, fed, counts, outcome>>

vars == <<model, calls, lastCall, lastGood, lf_args, lf_out,
          pc, args, X_rows, y_rows, t, train, pmodel, future_X, lag_window,
          preds, fed, counts, outcome>>

\* ------------------------------------------------------------------ bounds
FrameRows == 1     \* rows of a non-empty frame handed to fit / predict directly
MaxCalls == 2      \* fit / predict calls made on one instance
MaxLen   == 4      \* length of a series handed to the lag helpers
MaxLags  == 3      \* largest lag count tried
MaxSteps == 3      \* largest n_steps tried

\* ------------------------------------------------------------ cell values
NaN        == 0 - 1000
NonNumeric == 0 - 1001
Numbers    == {1, 2}
Cells      == Numbers \cup {NaN, NonNumeric}
Thetas     == {0, 1}

IsNum(c) == c # NaN /\ c # NonNumeric

RECURSIVE SumSeq(_)
SumSeq(s) == IF s = <<>> THEN 0 ELSE Head(s) + SumSeq(Tail(s))

Reverse(s) == [k \in 1..Len(s) |-> s[Len(s) + 1 - k]]

Range(s) == {s[k] : k \in 1..Len(s)}

HasDuplicates(s) == \E a, b \in 1..Len(s) : a # b /\ s[a] = s[b]

\* Python slice s[a:b] on a 0-based sequence; a negative bound counts from
\* the end, and both bounds are clamped to 0..len.
PyBound(n, a) ==
    LET b == IF a < 0 THEN a + n ELSE a
    IN  IF b < 0 THEN 0 ELSE IF b > n THEN n ELSE b

PySlice(s, a, b) ==
    LET lo == PyBound(Len(s), a)
        hi == PyBound(Len(s), b)
    IN  IF hi <= lo THEN <<>> ELSE [k \in 1..(hi - lo) |-> s[lo + k]]

\* s[a:]
PySliceFrom(s, a) == PySlice(s, a, Len(s))

\* range(a, b) as a sequence
PyRange(a, b) == IF b <= a THEN <<>> ELSE [k \in 1..(b - a) |-> a + k - 1]

\* f"lag{i}" for i in range(1, lags + 1)
LagName(i) == CASE i = 1 -> "lag1" [] i = 2 -> "lag2" [] i = 3 -> "lag3"
                [] i = 4 -> "lag4" [] OTHER -> "lag5"

LagColumns(lags) == IF lags < 1 THEN <<>> ELSE [i \in 1..lags |-> LagName(i)]

\* ------------------------------------------------------- pandas containers
RangeIndex(n) == [kind |-> "range", keys |-> PyRange(0, n)]

DataFrame(cols, rws, idx) ==
    [isFrame |-> TRUE, columns |-> cols, rows |-> rws, index |-> idx]

NotAFrame == [isFrame |-> FALSE, columns |-> <<>>, rows |-> <<>>,
              index |-> RangeIndex(0)]

PdSeries(vs, idx) == [isSeries |-> TRUE, values |-> vs, index |-> idx]

NotASeries == [isSeries |-> FALSE, values |-> <<>>, index |-> RangeIndex(0)]

\* X.values.astype(float) raises when a cell is not numeric
AstypeFails(rws) == \E r \in 1..Len(rws) : NonNumeric \in Range(rws[r])

HasNaN(rws) == \E r \in 1..Len(rws) : NaN \in Range(rws[r])

\* DataFrame.reindex(columns=target): by name; an absent name becomes a NaN
\* column; raises only when the frame's own labels are duplicated.
ReindexFails(X) == HasDuplicates(X.columns)

ColumnPos(cols, name) == CHOOSE p \in 1..Len(cols) : cols[p] = name

Reindex(X, target) ==
    DataFrame(target,
              [r \in 1..Len(X.rows) |->
                  [c \in 1..Len(target) |->
                      IF target[c] \in Range(X.columns)
                      THEN X.rows[r][ColumnPos(X.columns, target[c])]
                      ELSE NaN]],
              X.index)

\* --------------------------------------------------------- StandardScaler
\* Parameters are kept exactly: per column the count and the sum of the
\* non-NaN entries (mean = sum / cnt).  transform returns cnt * x - sum, the
\* centred value times cnt; inverse_transform undoes it.
UnfitScaler == [fitted |-> FALSE, cnt |-> <<>>, sum |-> <<>>]

NumCols(rws) == IF rws = <<>> THEN 0 ELSE Len(rws[1])

RECURSIVE ColSum(_, _, _)
ColSum(rws, c, r) ==
    IF r > Len(rws) THEN 0
    ELSE (IF IsNum(rws[r][c]) THEN rws[r][c] ELSE 0) + ColSum(rws, c, r + 1)

ColCnt(rws, c) == Cardinality({r \in 1..Len(rws) : IsNum(rws[r][c])})

\* check_array inside fit: at least one sample and one feature
ScalerFitFails(rws) == Len(rws) = 0 \/ NumCols(rws) = 0

ScalerFit(rws) ==
    [fitted |-> TRUE,
     cnt    |-> [c \in 1..NumCols(rws) |-> ColCnt(rws, c)],
     sum    |-> [c \in 1..NumCols(rws) |-> ColSum(rws, c, 1)]]

ScalerTransformFails(sc, rws) ==
    \/ ~sc.fitted
    \/ Len(rws) = 0
    \/ NumCols(rws) # Len(sc.cnt)

ScalerTransform(sc, rws) ==
    [r \in 1..Len(rws) |->
        [c \in 1..Len(rws[r]) |->
            IF IsNum(rws[r][c]) /\ sc.cnt[c] > 0
            THEN sc.cnt[c] * rws[r][c] - sc.sum[c]
            ELSE NaN]]

ScalerScale(sc) == IF sc.cnt[1] > 0 THEN sc.cnt[1] ELSE 1

ScalerInverse(sc, v) == (v + sc.sum[1]) \div ScalerScale(sc)

\* ----------------------------------------------- GaussianProcessRegressor
NoGPR == [present |-> FALSE, fitted |-> FALSE, theta |-> 0,
          X_train |-> <<>>, y_train |-> <<>>]

NewGPR == [present |-> TRUE, fitted |-> FALSE, theta |-> 0,
           X_train |-> <<>>, y_train |-> <<>>]

\* check_X_y inside GaussianProcessRegressor.fit rejects NaN
GPRFitFails(Xs, ys) == HasNaN(Xs) \/ NaN \in Range(ys)

GPRFit(Xs, ys, theta) ==
    [present |-> TRUE, fitted |-> TRUE, theta |-> theta,
     X_train |-> Xs, y_train |-> ys]

GPRPredictFails(g, Xf) ==
    \/ ~g.present
    \/ Len(Xf) = 0
    \/ HasNaN(Xf)
    \/ g.fitted /\ NumCols(Xf) # NumCols(g.X_train)

RECURSIVE Weighted(_, _)
Weighted(x, k) == IF k > Len(x) THEN 0 ELSE k * x[k] + Weighted(x, k + 1)

\* predictive mean of one row, in the scaled target's units; an unfitted
\* regressor answers from the prior (mean 0)
GPRMean(g, x) ==
    IF ~g.fitted THEN 0
    ELSE (g.theta + SumSeq(g.y_train) + Weighted(x, 1)) % 5

GPRStd(g, x) == IF ~g.fitted THEN 1 ELSE 1 + g.theta

\* ------------------------------------------- GaussianProcessProjection
NoColumns == <<"None">>

Raise(m, kind) == [model |-> m, raised |-> kind]

\* __init__
NewModel(normalize_y) ==
    [normalize_y     |-> normalize_y,
     scaler_X        |-> UnfitScaler,
     scaler_y        |-> UnfitScaler,
     gpr             |-> NoGPR,
     feature_columns |-> NoColumns,
     is_fitted       |-> FALSE]

ColumnVector(vs) == [r \in 1..Len(vs) |-> <<vs[r]>>]

Ravel(rws) == [r \in 1..Len(rws) |-> rws[r][1]]

\* fit, from the scaling of X on (lines 83-101); m already records the columns
FitScaled(m, X, y, theta) ==
    IF AstypeFails(X.rows) THEN Raise(m, "LibraryError")
    ELSE IF ScalerFitFails(X.rows)
    THEN Raise([m EXCEPT !.scaler_X = UnfitScaler], "LibraryError")
    ELSE
    LET m2 == [m EXCEPT !.scaler_X = ScalerFit(X.rows)]
        Xs == ScalerTransform(m2.scaler_X, X.rows)
    IN  IF NonNumeric \in Range(y.values) THEN Raise(m2, "LibraryError")
        ELSE
        LET y_vals == ColumnVector(y.values)
            m3 == IF m.normalize_y
                  THEN [m2 EXCEPT !.scaler_y = ScalerFit(y_vals)]
                  ELSE m2
            ys == IF m.normalize_y
                  THEN Ravel(ScalerTransform(m3.scaler_y, y_vals))
                  ELSE y.values
            m4 == [m3 EXCEPT !.gpr = NewGPR]
        IN  IF GPRFitFails(Xs, ys) THEN Raise(m4, "LibraryError")
            ELSE Raise([m4 EXCEPT !.gpr = GPRFit(Xs, ys, theta),
                                  !.is_fitted = TRUE], "")

\* fit as it would be with the fitted flag raised together with the columns
FitMarksEarly(m, X, y, theta) ==
    IF ~X.isFrame THEN Raise(m, "TypeMismatch")
    ELSE IF ~y.isSeries THEN Raise(m, "TypeMismatch")
    ELSE IF Len(X.rows) # Len(y.values) THEN Raise(m, "LengthMismatch")
    ELSE FitScaled([m EXCEPT !.feature_columns = X.columns,
                             !.is_fitted = TRUE], X, y, theta)

\* GaussianProcessProjection.fit; theta is what the optimiser settles on
Fit(m, X, y, theta) ==
    IF ~X.isFrame THEN Raise(m, "TypeMismatch")
    ELSE IF ~y.isSeries THEN Raise(m, "TypeMismatch")
    ELSE IF Len(X.rows) # Len(y.values) THEN Raise(m, "LengthMismatch")
    ELSE FitScaled([m EXCEPT !.feature_columns = X.columns], X, y, theta)

NoOutput == [values |-> <<>>, index |-> RangeIndex(0), std |-> <<>>]

Fail(m, kind) == [model |-> m, raised |-> kind, out |-> NoOutput]

\* the column alignment of predict (lines 118-123)
NeedsRealign(m, X_future) == X_future.columns # m.feature_columns

Aligned(m, X_future) ==
    IF NeedsRealign(m, X_future)
    THEN Reindex(X_future, m.feature_columns)
    ELSE X_future

\* predict, from the scaling of the aligned frame on (lines 125-142)
PredictAligned(m, Xa, return_std) ==
    IF AstypeFails(Xa.rows) THEN Fail(m, "LibraryError")
    ELSE IF ScalerTransformFails(m.scaler_X, Xa.rows)
    THEN Fail(m, "LibraryError")
    ELSE
    LET Xf_scaled == ScalerTransform(m.scaler_X, Xa.rows)
    IN  IF GPRPredictFails(m.gpr, Xf_scaled) THEN Fail(m, "LibraryError")
        ELSE
        LET n      == Len(Xf_scaled)
            mean   == [r \in 1..n |-> GPRMean(m.gpr, Xf_scaled[r])]
            y_std  == [r \in 1..n |-> GPRStd(m.gpr, Xf_scaled[r])]
            y_pred == IF m.normalize_y
                      THEN [r \in 1..n |-> ScalerInverse(m.scaler_y, mean[r])]
                      ELSE mean
            std    == IF m.normalize_y
                      THEN [r \in 1..n |-> y_std[r] * ScalerScale(m.scaler_y)]
                      ELSE y_std
        IN  [model  |-> m,
             raised |-> "",
             out    |-> [values |-> y_pred, index |-> Xa.index,
                         std |-> IF return_std THEN std ELSE <<>>]]

\* predict as it would be with fit_transform in place of transform
PredictRefits(m, X_future, return_std) ==
    IF ~m.is_fitted THEN Fail(m, "NotFitted")
    ELSE IF ~X_future.isFrame THEN Fail(m, "TypeMismatch")
    ELSE IF NeedsRealign(m, X_future) /\ ReindexFails(X_future)
    THEN Fail(m, "SchemaMismatch")
    ELSE LET Xa == Aligned(m, X_future)
         IN  IF AstypeFails(Xa.rows) \/ ScalerFitFails(Xa.rows)
             THEN Fail([m EXCEPT !.scaler_X = UnfitScaler], "LibraryError")
             ELSE PredictAligned([m EXCEPT !.scaler_X = ScalerFit(Xa.rows)],
                                 Xa, return_std)

\* GaussianProcessProjection.predict
Predict(m, X_future, return_std) ==
    IF ~m.is_fitted THEN Fail(m, "NotFitted")
    ELSE IF ~X_future.isFrame THEN Fail(m, "TypeMismatch")
    ELSE IF NeedsRealign(m, X_future) /\ ReindexFails(X_future)
    THEN Fail(m, "SchemaMismatch")
    ELSE PredictAligned(m, Aligned(m, X_future), return_std)

\* ===================================================================
\* Calls on one GaussianProcessProjection instance
\* ===================================================================

ColumnLists == {<<"lag1">>, <<"lag1", "lag2">>, <<"lag2", "lag1">>,
                <<"lag1", "lag1">>}

\* rows with at most one cell that is not a number; a numeric cell carries
\* its own position, so that a reordering of the columns shows in the row
RowsOver(cols) ==
    {row \in [1..Len(cols) -> Cells] :
        /\ \A c \in 1..Len(cols) : IsNum(row[c]) => row[c] = c
        /\ Cardinality({c \in 1..Len(cols) : ~IsNum(row[c])}) <= 1}

\* empty frames and frames of FrameRows equal rows
FrameInputs ==
    {NotAFrame} \cup
    UNION {{DataFrame(cols, [r \in 1..n |-> row], RangeIndex(n)) :
               n \in {0, FrameRows}, row \in RowsOver(cols)} : cols \in ColumnLists}

SeriesInputs ==
    {NotASeries} \cup
    {PdSeries([r \in 1..n |-> c], RangeIndex(n)) : n \in {0, FrameRows}, c \in Cells}

\* a frame lacks one of the columns recorded at fit time
LacksColumns(m, X) ==
    X.isFrame /\ \E c \in Range(m.feature_columns) : c \notin Range(X.columns)

NoCall == [op |-> "none", raised |-> "", out |-> NoOutput, lacking |-> FALSE]

NeverFitted == [fitted |-> FALSE, model |-> NewModel(TRUE)]

InitModel ==
    /\ model \in {NewModel(ny) : ny \in BOOLEAN}
    /\ calls = 0
    /\ lastCall = NoCall
    /\ lastGood = NeverFitted

FitCall ==
    /\ calls < MaxCalls
    /\ \E X \in FrameInputs, y \in SeriesInputs, theta \in Thetas :
          LET r == Fit(model, X, y, theta)
          IN  /\ model' = r.model
              /\ lastCall' = [op |-> "fit", raised |-> r.raised,
                              out |-> NoOutput, lacking |-> FALSE]
              /\ lastGood' = IF r.raised = ""
                             THEN [fitted |-> TRUE, model |-> r.model]
                             ELSE lastGood
    /\ calls' = calls + 1
    /\ UNCHANGED <<lvars, pvars>>

PredictCall ==
    /\ calls < MaxCalls
    /\ \E X_future \in FrameInputs, return_std \in BOOLEAN :
          LET r == Predict(model, X_future, return_std)
          IN  /\ model' = r.model
              /\ lastCall' = [op |-> "predict", raised |-> r.raised,
                              out |-> r.out,
                              lacking |-> LacksColumns(model, X_future)]
    /\ calls' = calls + 1
    /\ UNCHANGED lastGood
    /\ UNCHANGED <<lvars, pvars>>

\* ===================================================================
\* make_lag_features
\* ===================================================================
NoFreq == 0

\* pd.infer_freq on a DatetimeIndex: fewer than three stamps raise (caught,
\* giving None); otherwise the common non-zero spacing, or None
InferFreq(keys) ==
    IF Len(keys) < 3 THEN NoFreq
    ELSE IF \A j \in 1..(Len(keys) - 1) :
               keys[j + 1] - keys[j] = keys[2] - keys[1]
    THEN keys[2] - keys[1]
    ELSE NoFreq

\* pd.date_range(start, periods, freq)
DateRange(start, periods, freq) ==
    [kind |-> "datetime",
     keys |-> IF periods < 1 THEN <<>>
              ELSE [k \in 1..periods |-> start + (k - 1) * freq]]

\* the future index as it would be without dropping the start stamp
FutureIndexFromLast(series, n_steps, freq) ==
    LET isDT == series.index.kind = "datetime"
        f    == IF isDT /\ freq = NoFreq
                THEN InferFreq(series.index.keys) ELSE freq
    IN  IF isDT /\ f # NoFreq
        THEN DateRange(series.index.keys[Len(series.index.keys)], n_steps, f)
        ELSE RangeIndex(n_steps)

\* the index of the future rows (lines 170-180)
FutureIndex(series, n_steps, freq) ==
    LET isDT == series.index.kind = "datetime"
        f    == IF isDT /\ freq = NoFreq
                THEN InferFreq(series.index.keys) ELSE freq
    IN  IF isDT /\ f # NoFreq
        THEN LET start == series.index.keys[Len(series.index.keys)]
                 full  == DateRange(start, n_steps + 1, f)
             IN  [full EXCEPT !.keys = PySliceFrom(full.keys, 1)]
        ELSE RangeIndex(n_steps)

\* the loop as it would be without reversing the window
RECURSIVE LagRowsOldestFirst(_, _)
LagRowsOldestFirst(window, n_steps) ==
    IF n_steps <= 0 THEN <<>>
    ELSE <<window>> \o
         LagRowsOldestFirst(PySliceFrom(window, 1) \o <<NaN>>, n_steps - 1)

\* the loop of lines 183-191: one feature row per step, the window shifted
\* with a NaN placeholder
RECURSIVE LagRows(_, _)
LagRows(window, n_steps) ==
    IF n_steps <= 0 THEN <<>>
    ELSE <<Reverse(window)>> \o
         LagRows(PySliceFrom(window, 1) \o <<NaN>>, n_steps - 1)

LagFail(kind) == [raised |-> kind, frame |-> NotAFrame]

MakeLagFeatures(series, lags, n_steps, freq) ==
    IF ~series.isSeries THEN LagFail("TypeMismatch")
    ELSE IF lags < 1 THEN LagFail("InsufficientData")
    ELSE IF NonNumeric \in Range(series.values) THEN LagFail("LibraryError")
    ELSE IF Len(series.values) < lags THEN LagFail("InsufficientData")
    ELSE [raised |-> "",
          frame  |-> DataFrame(LagColumns(lags),
                               LagRows(PySliceFrom(series.values, 0 - lags),
                                       n_steps),
                               FutureIndex(series, n_steps, freq))]

\* --------------------------------------------------------------- inputs
\* datetime indexes of n stamps: all equal or evenly spaced, or with the
\* last stamp pushed one unit later
DatetimeIndexes(n) ==
    {[kind |-> "datetime",
      keys |-> [k \in 1..n |-> s * (k - 1) + (IF k = n THEN j ELSE 0)]] :
        s \in {0, 1, 2}, j \in {0, 1}}

IndexesOf(n) == {RangeIndex(n)} \cup DatetimeIndexes(n)

HistorySeries ==
    UNION {{PdSeries(vs, idx) : vs \in [1..n -> Numbers], idx \in IndexesOf(n)} :
              n \in 0..MaxLen}

LagInputs == (0 - 1)..MaxLags

StepInputs == 0..MaxSteps

NoLagArgs == [called |-> FALSE, series |-> NotASeries, lags |-> 0,
              n_steps |-> 0, freq |-> NoFreq]

InitLag == lf_args = NoLagArgs /\ lf_out = LagFail("")

MakeLagCall ==
    /\ ~lf_args.called
    /\ \E series \in HistorySeries \cup {NotASeries}, lags \in LagInputs,
          n_steps \in StepInputs, freq \in {NoFreq, 2} :
          /\ lf_args' = [called |-> TRUE, series |-> series, lags |-> lags,
                         n_steps |-> n_steps, freq |-> freq]
          /\ lf_out' = MakeLagFeatures(series, lags, n_steps, freq)
    /\ UNCHANGED <<mvars, pvars>>

\* ===================================================================
\* project_with_autoregression, one step per loop iteration
\* ===================================================================
NoArgs == [series |-> NotASeries, lags |-> 0, n_steps |-> 0,
           normalize_y |-> TRUE]

NoTrain == [X |-> NotAFrame, y |-> NotASeries]

NoOutcome == [raised |-> "", result |-> NotASeries]

NoCounts == [constructed |-> 0, fits |-> 0, predicts |-> 0]

InitProject ==
    /\ pc = "idle"
    /\ args = NoArgs
    /\ X_rows = <<>>
    /\ y_rows = <<>>
    /\ t = 0
    /\ train = NoTrain
    /\ pmodel = NewModel(TRUE)
    /\ future_X = NotAFrame
    /\ lag_window = <<>>
    /\ preds = <<>>
    /\ fed = <<>>
    /\ counts = NoCounts
    /\ outcome = NoOutcome

vals == args.series.values

\* the validation as it would be with < for <=
TooShortStrict(series, lags) == Len(series.values) < lags

\* the validation of line 214
TooShort(series, lags) == Len(series.values) <= lags

\* a[i] with Python's negative indexing
PyInRange(s, i) == (0 - Len(s)) <= i /\ i < Len(s)

PyIndex(s, i) == s[(IF i < 0 THEN i + Len(s) ELSE i) + 1]

\* the feature row as it would be without the reversal
TrainRowOldestFirst(vs, lags, tt) == PySlice(vs, tt - lags, tt)

\* the feature row of training index t (lines 222-223)
TrainRow(vs, lags, tt) == Reverse(PySlice(vs, tt - lags, tt))

\* the slide as it would be dropping the newest element instead
SlideDropsNewest(w, yhat) == PySlice(w, 0, Len(w) - 1) \o <<yhat>>

\* window = window[1:] + [yhat] (line 242)
Slide(w, yhat) == PySliceFrom(w, 1) \o <<yhat>>

PRaise(kind) ==
    /\ pc' = "raised"
    /\ outcome' = [raised |-> kind, result |-> NotASeries]

\* entry: lines 210-220
ProjectCall ==
    /\ pc = "idle"
    /\ \E series \in HistorySeries, lags \in LagInputs,
          n_steps \in StepInputs, ny \in BOOLEAN :
          /\ args' = [series |-> series, lags |-> lags, n_steps |-> n_steps,
                      normalize_y |-> ny]
          /\ IF TooShort(series, lags)
             THEN PRaise("InsufficientData") /\ UNCHANGED t
             ELSE pc' = "build" /\ t' = lags /\ UNCHANGED outcome
    /\ UNCHANGED <<X_rows, y_rows, train, pmodel, future_X, lag_window, preds,
                   fed, counts>>
    /\ UNCHANGED <<mvars, lvars>>

\* one iteration of the loop of lines 221-224
BuildRow ==
    /\ pc = "build"
    /\ t < Len(vals)
    /\ X_rows' = Append(X_rows, TrainRow(vals, args.lags, t))
    /\ IF PyInRange(vals, t)
       THEN /\ y_rows' = Append(y_rows, PyIndex(vals, t))
            /\ t' = t + 1
            /\ UNCHANGED <<pc, outcome>>
       ELSE PRaise("LibraryError") /\ UNCHANGED <<y_rows, t>>
    /\ UNCHANGED <<args, train, pmodel, future_X, lag_window, preds, fed, counts>>
    /\ UNCHANGED <<mvars, lvars>>

\* lines 226-227: pandas rejects rows that do not match the columns and a
\* series whose values and index differ in length
BuildFrames ==
    /\ pc = "build"
    /\ t >= Len(vals)
    /\ LET cols == LagColumns(args.lags)
           idx  == [args.series.index EXCEPT
                       !.keys = PySliceFrom(@, args.lags)]
       IN  IF \/ \E r \in 1..Len(X_rows) : Len(X_rows[r]) # Len(cols)
              \/ Len(y_rows) # Len(idx.keys)
           THEN PRaise("LibraryError") /\ UNCHANGED train
           ELSE /\ train' = [X |-> DataFrame(cols, X_rows,
                                             RangeIndex(Len(X_rows))),
                             y |-> PdSeries(y_rows, idx)]
                /\ pc' = "fit"
                /\ UNCHANGED outcome
    /\ UNCHANGED <<args, X_rows, y_rows, t, pmodel, future_X, lag_window, preds,
                   fed, counts>>
    /\ UNCHANGED <<mvars, lvars>>

\* lines 229-230
FitModel ==
    /\ pc = "fit"
    /\ \E theta \in Thetas :
          LET r == Fit(NewModel(args.normalize_y), train.X, train.y, theta)
          IN  /\ pmodel' = r.model
              /\ IF r.raised = ""
                 THEN pc' = "lagfeat" /\ UNCHANGED outcome
                 ELSE PRaise(r.raised)
    /\ counts' = [counts EXCEPT !.constructed = @ + 1, !.fits = @ + 1]
    /\ UNCHANGED <<args, X_rows, y_rows, t, train, future_X, lag_window, preds, fed>>
    /\ UNCHANGED <<mvars, lvars>>

\* lines 233-235
PrepareRollout ==
    /\ pc = "lagfeat"
    /\ LET r == MakeLagFeatures(args.series, args.lags, args.n_steps, NoFreq)
       IN  IF r.raised = ""
           THEN /\ future_X' = r.frame
                /\ lag_window' = PySliceFrom(vals, 0 - args.lags)
                /\ pc' = "rollout"
                /\ UNCHANGED outcome
           ELSE PRaise(r.raised) /\ UNCHANGED <<future_X, lag_window>>
    /\ UNCHANGED <<args, X_rows, y_rows, t, train, pmodel, preds, fed, counts>>
    /\ UNCHANGED <<mvars, lvars>>

\* one iteration of the loop of lines 236-242
RolloutStep ==
    /\ pc = "rollout"
    /\ Len(preds) < args.n_steps
    /\ LET features == DataFrame(train.X.columns, <<Reverse(lag_window)>>,
                                 RangeIndex(1))
           r        == Predict(pmodel, features, FALSE)
       IN  /\ fed' = Append(fed, features.rows[1])
           /\ pmodel' = r.model
           /\ IF r.raised = ""
              THEN /\ preds' = Append(preds, r.out.values[1])
                   /\ lag_window' = Slide(lag_window, r.out.values[1])
                   /\ UNCHANGED <<pc, outcome>>
              ELSE PRaise(r.raised) /\ UNCHANGED <<preds, lag_window>>
    /\ counts' = [counts EXCEPT !.predicts = @ + 1]
    /\ UNCHANGED <<args, X_rows, y_rows, t, train, future_X>>
    /\ UNCHANGED <<mvars, lvars>>

\* lines 245-246
ReturnForecast ==
    /\ pc = "rollout"
    /\ Len(preds) >= args.n_steps
    /\ IF Len(preds) # Len(future_X.index.keys)
       THEN PRaise("LibraryError")
       ELSE /\ pc' = "done"
            /\ outcome' = [raised |-> "",
                           result |-> PdSeries(preds, future_X.index)]
    /\ UNCHANGED <<args, X_rows, y_rows, t, train, pmodel, future_X, lag_window,
                   preds, fed, counts>>
    /\ UNCHANGED <<mvars, lvars>>

NextProject ==
    \/ ProjectCall
    \/ BuildRow
    \/ BuildFrames
    \/ FitModel
    \/ PrepareRollout
    \/ RolloutStep
    \/ ReturnForecast

NextModel == FitCall \/ PredictCall

NextLag == MakeLagCall

\* ===================================================================
\* Specifications
\* ===================================================================
\* the instance of the call sequences, when no calls are made on it
ModelUnused ==
    /\ model = NewModel(TRUE)
    /\ calls = 0
    /\ lastCall = NoCall
    /\ lastGood = NeverFitted

InitCalls == InitModel /\ InitLag /\ InitProject

InitHelper == ModelUnused /\ InitLag /\ InitProject

\* fit and predict calls on one instance
SpecModel == InitCalls /\ [][NextModel]_vars

\* one call of make_lag_features
SpecLag == InitHelper /\ [][NextLag]_vars

\* one call of project_with_autoregression
SpecProject == InitHelper /\ [][NextProject]_vars

\* ===================================================================
\* Properties of fit / predict on one instance (SpecModel)
\* ===================================================================

\* C1: as long as no fit call has returned successfully, every predict call
\* raises NotFitted and returns no series, whatever failed fits came before.
C1_PredictBeforeFitRaisesNotFitted ==
    (lastCall.op = "predict" /\ ~lastGood.fitted) =>
        (lastCall.raised = "NotFitted" /\ lastCall.out = NoOutput)

\* a predict call made after a fit that failed part-way (the columns were
\* already recorded) and before any successful fit
C1_Witness ==
    /\ lastCall.op = "predict"
    /\ ~lastGood.fitted
    /\ model.feature_columns # NoColumns
    /\ lastCall.raised = "NotFitted"

\* C4: predict on a fitted model with a frame that lacks a column recorded at
\* fit time raises SchemaMismatch.
C4_MissingColumnsRaiseSchemaMismatch ==
    (lastCall.op = "predict" /\ model.is_fitted /\ lastCall.lacking) =>
        lastCall.raised = "SchemaMismatch"

\* C5: a predict call on a fitted model, whatever its arguments and however
\* it ends, leaves every field of the model as it was.
C5_PredictLeavesModelUnchanged ==
    [][(lastCall'.op = "predict" /\ calls' = calls + 1 /\ model.is_fitted)
           => model' = model]_vars

\* a successful predict with return_std on a fitted model
C5_Witness ==
    /\ lastCall.op = "predict"
    /\ lastCall.raised = ""
    /\ lastCall.out.std # <<>>
    /\ model.is_fitted
    /\ model = lastGood.model

\* C10: whenever the model is marked fitted, its columns, scalers and
\* regressor are those the most recent successful fit left.
C10_FittedStateFromLastSuccessfulFit ==
    model.is_fitted => (lastGood.fitted /\ model = lastGood.model)

\* ===================================================================
\* Properties of make_lag_features (SpecLag)
\* ===================================================================

\* C9: for a series of n >= L >= 1 values, make_lag_features returns n_steps
\* rows under the columns lag1..lagL; in row i (from 0) lag_k is NaN for
\* k <= i and the historical value at index n - k + i for k > i.
C9_LagFeatureRowsFromHistory ==
    (/\ lf_args.called
     /\ lf_args.series.isSeries
     /\ lf_args.lags >= 1
     /\ Len(lf_args.series.values) >= lf_args.lags) =>
        LET hist == lf_args.series.values
            n    == Len(hist)
            L    == lf_args.lags
        IN  /\ lf_out.raised = ""
            /\ Len(lf_out.frame.rows) = lf_args.n_steps
            /\ Len(lf_out.frame.columns) = L
            /\ \A k \in 1..L : lf_out.frame.columns[k] = LagName(k)
            /\ \A i \in 0..(lf_args.n_steps - 1) :
                  /\ Len(lf_out.frame.rows[i + 1]) = L
                  /\ \A k \in 1..L :
                        lf_out.frame.rows[i + 1][k] =
                            IF k <= i THEN NaN ELSE hist[n - k + i + 1]

\* three rows of two lags: the first all history, the last all placeholders
C9_Witness ==
    /\ lf_args.called
    /\ lf_args.lags = 2
    /\ lf_args.n_steps = 3
    /\ lf_out.raised = ""
    /\ lf_out.frame.rows[1] = <<2, 1>>
    /\ lf_out.frame.rows[2] = <<NaN, 2>>
    /\ lf_out.frame.rows[3] = <<NaN, NaN>>

\* ===================================================================
\* Properties of project_with_autoregression (SpecProject)
\* ===================================================================
Started == pc # "idle"

Built == train.X.isFrame

\* C2: for 1 <= L < n the training set has n - L rows; the row for index t
\* (L <= t <= n - 1) has lag_k = value at t - k and target = value at t.
C2_TrainingRowsAreLaggedWindows ==
    LET n == Len(vals)
        L == args.lags
    IN  (pc \in {"fit", "lagfeat", "rollout", "done", "raised"}
            /\ 1 <= L /\ L < n) =>
           /\ Built
           /\ Len(train.X.rows) = n - L
           /\ Len(train.y.values) = n - L
           /\ Len(train.X.columns) = L
           /\ \A k \in 1..L : train.X.columns[k] = LagName(k)
           /\ \A tt \in L..(n - 1) :
                 /\ Len(train.X.rows[tt - L + 1]) = L
                 /\ \A k \in 1..L :
                       train.X.rows[tt - L + 1][k] = vals[tt - k + 1]
                 /\ train.y.values[tt - L + 1] = vals[tt + 1]

\* two lags over a four-value series whose values differ
C2_Witness ==
    /\ Built
    /\ args.lags = 2
    /\ vals = <<1, 2, 1, 2>>
    /\ train.X.rows = <<<<2, 1>>, <<1, 2>>>>
    /\ train.y.values = <<1, 2>>

\* the historical values followed by the forecasts made so far
Known == vals \o preds

\* C3: during the rollout the window holds exactly `lags` values, the most
\* recent of history-then-forecasts; the row passed to predict at iteration
\* i has lag_k = forecast i - k when k <= i, else the value at n + i - k.
C3_RolloutFeedsForecastsBack ==
    LET n == Len(vals)
        L == args.lags
    IN  pc \in {"rollout", "done"} =>
           /\ Len(lag_window) = L
           /\ lag_window = [k \in 1..L |-> Known[Len(Known) - L + k]]
           /\ Len(fed) = Len(preds)
           /\ \A i \in 0..(Len(fed) - 1) :
                 /\ Len(fed[i + 1]) = L
                 /\ \A k \in 1..L :
                       fed[i + 1][k] = IF k <= i THEN preds[i - k + 1]
                                       ELSE vals[n + i - k + 1]

\* a finished rollout of three steps with two lags: the third row is made of
\* forecasts only
C3_Witness ==
    /\ pc = "done"
    /\ args.lags = 2
    /\ Len(fed) = 3
    /\ fed[3] = <<preds[2], preds[1]>>
    /\ preds[1] # preds[2]

\* C6: with len(series) <= lags the call raises InsufficientData at once:
\* no training row, no regressor, no fit, no predict, no forecast.
C6_ShortSeriesRejectedUpFront ==
    (Started /\ Len(vals) <= args.lags) =>
        /\ pc = "raised"
        /\ outcome.raised = "InsufficientData"
        /\ outcome.result = NotASeries
        /\ X_rows = <<>>
        /\ y_rows = <<>>
        /\ ~Built
        /\ counts = NoCounts
        /\ preds = <<>>

\* a series exactly as long as the lag count
C6_Witness ==
    /\ pc = "raised"
    /\ args.lags = 2
    /\ Len(vals) = 2
    /\ outcome.raised = "InsufficientData"

\* C7: with lags < 1 the call raises InsufficientData at its precondition
\* check, before the training set is built and before any fit.
C7_LagsBelowOneRejectedUpFront ==
    (Started /\ args.lags < 1) =>
        /\ pc = "raised"
        /\ outcome.raised = "InsufficientData"
        /\ X_rows = <<>>
        /\ counts.fits = 0

Detectable(keys) ==
    /\ Len(keys) >= 3
    /\ keys[2] # keys[1]
    /\ \A j \in 1..(Len(keys) - 1) : keys[j + 1] - keys[j] = keys[2] - keys[1]

ExpectedIndex ==
    LET keys == args.series.index.keys
    IN  IF args.series.index.kind = "datetime" /\ Detectable(keys)
        THEN [kind |-> "datetime",
              keys |-> [k \in 1..args.n_steps |->
                           keys[Len(keys)] + k * (keys[2] - keys[1])]]
        ELSE [kind |-> "range", keys |-> [k \in 1..args.n_steps |-> k - 1]]

Forecast(row) ==
    Predict(pmodel, DataFrame(train.X.columns, <<row>>, RangeIndex(1)),
            FALSE).out.values[1]

Valid == Started /\ args.lags >= 1 /\ Len(vals) > args.lags

\* steps the call still has to take
Remaining ==
    CASE pc = "build"   -> (Len(vals) - t) + args.n_steps + 4
      [] pc = "fit"     -> args.n_steps + 3
      [] pc = "lagfeat" -> args.n_steps + 2
      [] pc = "rollout" -> (args.n_steps - Len(preds)) + 1
      [] OTHER          -> 0

Returned ==
    /\ counts.predicts = args.n_steps
    /\ outcome.raised = ""
    /\ Len(outcome.result.values) = args.n_steps
    /\ \A i \in 1..args.n_steps : outcome.result.values[i] = Forecast(fed[i])
    /\ outcome.result.index = future_X.index
    /\ outcome.result.index = ExpectedIndex

\* C8: every call with len(series) > lags >= 1 ends, after exactly n_steps
\* predict calls, returning the n_steps forecasts in the order they were
\* made, under the index make_lag_features built: the stamps following the
\* last one at the detected frequency, or 0..n_steps-1.  Ending: the call
\* never raises, and every step it takes brings the return nearer.
C8_ReturnsForecastsUnderFutureIndex ==
    /\ [](Valid => /\ pc \in {"build", "fit", "lagfeat", "rollout", "done"}
                   /\ counts.predicts = Len(preds)
                   /\ counts.predicts <= args.n_steps
                   /\ (pc = "done") = (Remaining = 0)
                   /\ pc = "done" => Returned)
    /\ [][Valid => (Remaining' < Remaining /\ Remaining' >= 0)]_vars

\* a three-step forecast stamped after an evenly spaced datetime index
C8_Witness ==
    /\ pc = "done"
    /\ args.n_steps = 3
    /\ args.series.index.kind = "datetime"
    /\ args.series.index.keys = <<0, 2, 4>>
    /\ outcome.result.index.keys = <<6, 8, 10>>
    /\ counts.predicts = 3

====
